---- MODULE Spec2Model ----
(***************************************************************************)
(* Model of gitlab_backup.py: the paged fetcher (_make_request), the       *)
(* per-project mirror (clone_project) and the orchestrator (backup_all).   *)
(*                                                                         *)
(* The GitLab server, the file system under the output root and the git    *)
(* clone process are the environment.  The server is a fixed snapshot      *)
(* chosen in Init; every listing request may fail; every clone process     *)
(* may exit 0, exit non-zero (leaving its destination or not) or raise.    *)
(***************************************************************************)
EXTENDS Naturals, Sequences, FiniteSets

(***************************************************************************)
(* Bounds of the model.                                                    *)
(***************************************************************************)
MaxGroups == 2
MaxProjects == 2
MaxRuns == 2
MaxListingFailures == 1
MaxPages == 3

(***************************************************************************)
(* Program constants.                                                      *)
(***************************************************************************)
\* params['per_page'] = 100, and the short-page test len(data) < 100
PerPage == 100

\* The bucket of the projects of no group.  The source uses the literal
\* "未分组" ("ungrouped"), which is no group's path segment: a GitLab path
\* is made of ASCII letters, digits, '_', '-' and '.'.
UngroupedBucket == "ungrouped"

\* Path segments the server's groups and projects draw from.
GroupPaths == {"x", "y"}
ProjectPaths == {"a", "b"}

(***************************************************************************)
(* Helpers on sequences.                                                   *)
(***************************************************************************)
Range(s) == {s[i] : i \in DOMAIN s}

RECURSIVE Flatten(_)
Flatten(ss) == IF ss = <<>> THEN <<>> ELSE Head(ss) \o Flatten(Tail(ss))

\* NotGrouped with "in" for "not in".
RECURSIVE NotGroupedInverted(_, _)
NotGroupedInverted(all_projects, grouped_project_ids) ==
    IF all_projects = <<>> THEN <<>>
    ELSE (IF Head(all_projects).id \in grouped_project_ids
            THEN <<Head(all_projects)>> ELSE <<>>)
         \o NotGroupedInverted(Tail(all_projects), grouped_project_ids)

\* NotGrouped that builds its list back to front.
RECURSIVE NotGroupedReversed(_, _)
NotGroupedReversed(all_projects, grouped_project_ids) ==
    IF all_projects = <<>> THEN <<>>
    ELSE NotGroupedReversed(Tail(all_projects), grouped_project_ids)
         \o (IF Head(all_projects).id \notin grouped_project_ids
               THEN <<Head(all_projects)>> ELSE <<>>)

\* [p for p in all_projects if p['id'] not in grouped_project_ids]
RECURSIVE NotGrouped(_, _)
NotGrouped(all_projects, grouped_project_ids) ==
    IF all_projects = <<>> THEN <<>>
    ELSE (IF Head(all_projects).id \notin grouped_project_ids
            THEN <<Head(all_projects)>> ELSE <<>>)
         \o NotGrouped(Tail(all_projects), grouped_project_ids)

(***************************************************************************)
(* The paged fetcher, _make_request.                                       *)
(*                                                                         *)
(* An endpoint is the sequence of the pages it serves: pages[k] is the     *)
(* JSON array answered to page = k, and a page past the last one is the    *)
(* empty array.  fail is the number of the page whose request raises       *)
(* RequestException, from requests.get or raise_for_status (0: no request  *)
(* fails).  The result holds the list returned, the page numbers requested *)
(* in order, whether a request failed and whether an error reached the     *)
(* caller.                                                                 *)
(***************************************************************************)
PageAt(pages, page) == IF page \in DOMAIN pages THEN pages[page] ELSE <<>>

\* FetchLoop with "except ...: return []" in place of "break": a failed
\* request throws the pages already fetched away.
RECURSIVE FetchLoopDiscard(_, _, _, _, _)
FetchLoopDiscard(pages, fail, page, all_data, requested) ==
    LET asked == Append(requested, page)
        data == PageAt(pages, page)
    IN  IF page = fail
          THEN [all_data |-> <<>>, requested |-> asked, failed |-> TRUE,
                raised |-> FALSE]
        ELSE IF data = <<>>
          THEN [all_data |-> all_data, requested |-> asked, failed |-> FALSE,
                raised |-> FALSE]
        ELSE IF Len(data) < PerPage
          THEN [all_data |-> all_data \o data, requested |-> asked,
                failed |-> FALSE, raised |-> FALSE]
        ELSE FetchLoopDiscard(pages, fail, page + 1, all_data \o data, asked)

\* FetchLoop with "raise" in place of "break" in the except clause.
RECURSIVE FetchLoopRaise(_, _, _, _, _)
FetchLoopRaise(pages, fail, page, all_data, requested) ==
    LET asked == Append(requested, page)
        data == PageAt(pages, page)
    IN  IF page = fail
          THEN [all_data |-> all_data, requested |-> asked, failed |-> TRUE,
                raised |-> TRUE]
        ELSE IF data = <<>>
          THEN [all_data |-> all_data, requested |-> asked, failed |-> FALSE,
                raised |-> FALSE]
        ELSE IF Len(data) < PerPage
          THEN [all_data |-> all_data \o data, requested |-> asked,
                failed |-> FALSE, raised |-> FALSE]
        ELSE FetchLoopRaise(pages, fail, page + 1, all_data \o data, asked)

\* One turn of the loop "while True" with its three breaks; requested is
\* the sequence of the page numbers asked so far.
RECURSIVE FetchLoop(_, _, _, _, _)
FetchLoop(pages, fail, page, all_data, requested) ==
    LET asked == Append(requested, page)
        data == PageAt(pages, page)
    IN  IF page = fail
          THEN \* except RequestException: logger.error(...); break
               [all_data |-> all_data, requested |-> asked, failed |-> TRUE,
                raised |-> FALSE]
        ELSE IF data = <<>>
          THEN \* if not data: break
               [all_data |-> all_data, requested |-> asked, failed |-> FALSE,
                raised |-> FALSE]
        ELSE IF Len(data) < PerPage
          THEN \* all_data.extend(data); if len(data) < 100: break
               [all_data |-> all_data \o data, requested |-> asked,
                failed |-> FALSE, raised |-> FALSE]
        ELSE FetchLoop(pages, fail, page + 1, all_data \o data, asked)

\* make_request with "page = 0": the first page asked is page 0.
make_request_from_zero(pages, fail) == FetchLoop(pages, fail, 0, <<>>, <<>>)

\* page = 1; all_data = []; while True: ...; return all_data
make_request(pages, fail) == FetchLoop(pages, fail, 1, <<>>, <<>>)

\* The server cuts a list into the pages of per_page records it serves.
RECURSIVE Paginate(_)
Paginate(list) ==
    IF Len(list) = 0 THEN <<>>
    ELSE IF Len(list) <= PerPage THEN <<list>>
    ELSE <<SubSeq(list, 1, PerPage)>>
            \o Paginate(SubSeq(list, PerPage + 1, Len(list)))

(***************************************************************************)
(* The clone URL of clone_project.  A string is the sequence of its        *)
(* characters.                                                             *)
(***************************************************************************)
\* Whether sep is in s at position i.
At(s, sep, i) ==
    /\ i + Len(sep) - 1 <= Len(s)
    /\ SubSeq(s, i, i + Len(sep) - 1) = sep

\* The first position from i on where sep is in s, 0 when there is none.
RECURSIVE Find(_, _, _)
Find(s, sep, i) ==
    IF i + Len(sep) - 1 > Len(s) THEN 0
    ELSE IF At(s, sep, i) THEN i
    ELSE Find(s, sep, i + 1)

\* sep in s
Contains(s, sep) == Find(s, sep, 1) # 0

\* s.split(sep), sep not empty
RECURSIVE Split(_, _)
Split(s, sep) ==
    LET k == Find(s, sep, 1)
    IN  IF k = 0 THEN <<s>>
        ELSE <<SubSeq(s, 1, k - 1)>>
                \o Split(SubSeq(s, k + Len(sep), Len(s)), sep)

\* s.replace(old, new), old not empty
RECURSIVE Replace(_, _, _)
Replace(s, old, new) ==
    LET k == Find(s, old, 1)
    IN  IF k = 0 THEN s
        ELSE SubSeq(s, 1, k - 1) \o new
                \o Replace(SubSeq(s, k + Len(old), Len(s)), old, new)

SchemeSep == <<":", "/", "/">>
AtSign == <<"@">>
OAuth2 == <<"o", "a", "u", "t", "h", "2", ":">>

\* The two literals of token_url.replace(...)
NavclipsHost ==
    <<"g", "i", "t", "l", "a", "b", ".", "n", "a", "v", "c", "l", "i", "p",
      "s", ".", "c", "o", "m">>
NavclipsAddress ==
    <<"4", "7", ".", "1", "0", "7", ".", "1", "5", "8", ".", "1", "2", "7">>

\* f"{scheme}://oauth2:{self.access_token}@{rest}"
WithToken(scheme, access_token, rest) ==
    scheme \o SchemeSep \o OAuth2 \o access_token \o AtSign \o rest

\* Lines 187-197 of clone_project: the URL handed to git clone, or the
\* IndexError of url_parts[1] when the URL has neither '@' nor '://'.
token_url(project_url, access_token) ==
    IF Contains(project_url, AtSign)
      THEN LET url_parts == Split(project_url, AtSign)
           IN  [raised |-> FALSE,
                url |-> Replace(
                          WithToken(Split(url_parts[1], SchemeSep)[1],
                                    access_token, url_parts[2]),
                          NavclipsHost, NavclipsAddress)]
    ELSE LET url_parts == Split(project_url, SchemeSep)
         IN  IF Len(url_parts) < 2
               THEN [raised |-> TRUE, url |-> <<>>]
             ELSE [raised |-> FALSE,
                   url |-> Replace(
                             WithToken(url_parts[1], access_token,
                                       url_parts[2]),
                             NavclipsHost, NavclipsAddress)]

(***************************************************************************)
(* State.                                                                  *)
(***************************************************************************)
VARIABLES
    \* the server: a fixed snapshot
    srv_groups,         \* answer of 'groups': sequence of [id, path]
    srv_members,        \* group id -> answer of 'groups/<id>/projects'
    srv_projects,       \* answer of 'projects': sequence of [id, path]
    \* the command line and the disk
    include_ungrouped,  \* not args.no_ungrouped
    fs,                 \* the output root: what is at each destination
                        \* <<bucket, project path>>
    \* the GitLabBackup instance
    total_groups, total_projects, cloned_projects, skipped_projects,
    failed_projects,
    \* backup_all: its position and its local variables
    pc, groups, gi, total, all_projects, grouped_project_ids,
    projects, pj, current_project,
    \* history: what the run has done
    run,                \* number of the run of the tool, from 1
    fs0,                \* fs when the run began
    listing_failures,   \* listing requests that failed in this run
    listing_failures_total,  \* ... and in all runs
    listed,             \* the <<group id, project id, bucket>> of the
                        \* projects the mirroring pass was given by its
                        \* listings, in order (group id 0: no group)
    calls,              \* the calls of clone_project of this run, in order
    requests,           \* the endpoints this run has requested, in order
    \* one call of _make_request on a stub endpoint
    endpoint,           \* the pages the stub serves
    fail_page,          \* the page whose request fails, 0 for none
    fetched,            \* the result of the call, <<>> before it
    \* one making of the clone URL
    url_in,             \* project['http_url_to_repo'], by its components
    access_token,       \* self.access_token
    url_out             \* the result of token_url, <<>> before it

server == <<srv_groups, srv_members, srv_projects, include_ungrouped>>
counters == <<total_groups, total_projects, cloned_projects,
              skipped_projects, failed_projects>>
locals == <<pc, groups, gi, total, all_projects, grouped_project_ids,
            projects, pj, current_project>>
history == <<run, fs0, listing_failures, listing_failures_total, listed,
             calls, requests>>
fetcher == <<endpoint, fail_page, fetched>>
cloner == <<url_in, access_token, url_out>>
vars == <<server, fs, counters, locals, history, fetcher, cloner>>

(***************************************************************************)
(* The server snapshots and the disks a run may start from.                *)
(***************************************************************************)
\* Every destination a project directory can have.
Dests == (GroupPaths \cup {UngroupedBucket}) \X ProjectPaths

\* The unrestricted project list holds n projects, identifiers 1..n, in
\* identifier order; any two projects may share a path segment (projects
\* of different namespaces).
ProjectLists ==
    UNION {{[i \in 1..n |-> [id |-> i, path |-> path[i]]] :
                path \in [1..n -> ProjectPaths]} : n \in 0..MaxProjects}

\* The groups have identifiers 1..n; any two may share a path segment
\* (subgroups of different parents).
GroupLists ==
    UNION {{[i \in 1..n |-> [id |-> i, path |-> path[i]]] :
                path \in [1..n -> GroupPaths]} : n \in 0..MaxGroups}

\* The projects of plist whose identifier is in ids, in the list's order.
RECURSIVE Select(_, _)
Select(plist, ids) ==
    IF plist = <<>> THEN <<>>
    ELSE (IF Head(plist).id \in ids THEN <<Head(plist)>> ELSE <<>>)
         \o Select(Tail(plist), ids)

Ids(plist) == {plist[i].id : i \in DOMAIN plist}

(***************************************************************************)
(* Listing requests: get_groups, get_projects.                             *)
(***************************************************************************)
\* The page whose request may fail in one listing: every list of the model
\* fits in one page, so page 1 is the only page ever requested.
FailChoices ==
    IF listing_failures_total < MaxListingFailures THEN {0, 1} ELSE {0}

get_groups(fail) == make_request(Paginate(srv_groups), fail)

\* get_projects(group_id): "if group_id" is true of every group, identifiers
\* being positive.
get_group_projects(group_id, fail) ==
    make_request(Paginate(srv_members[group_id]), fail)

get_all_projects(fail) == make_request(Paginate(srv_projects), fail)

\* The endpoints of _make_request: 'groups', 'groups/<id>/projects' and
\* 'projects' (group_id is 0 where the endpoint names no group).
GroupsEndpoint == [endpoint |-> "groups", group_id |-> 0]
GroupProjectsEndpoint(group_id) ==
    [endpoint |-> "groups/<id>/projects", group_id |-> group_id]
ProjectsEndpoint == [endpoint |-> "projects", group_id |-> 0]

\* One listing request of backup_all and where the run goes after it:
\* backup_all and main catch nothing, so an error raised by the request would
\* end the process with a traceback.
Listed(r, ep, next_pc) ==
    /\ pc' = IF r.raised THEN "traceback" ELSE next_pc
    /\ requests' = Append(requests, ep)
    /\ listing_failures' = listing_failures + (IF r.failed THEN 1 ELSE 0)
    /\ listing_failures_total' =
            listing_failures_total + (IF r.failed THEN 1 ELSE 0)

NoListing == UNCHANGED <<listing_failures, listing_failures_total, requests>>

(***************************************************************************)
(* The project mirror, clone_project.                                      *)
(***************************************************************************)
\* What the clone process may do: exit 0 having made the mirror, exit
\* non-zero having left its destination on disk or not, or not run at all
\* (subprocess.run or the making of the URL raises).
CloneProcess ==
    {[exit |-> "zero", left |-> TRUE],
     [exit |-> "nonzero", left |-> TRUE],
     [exit |-> "nonzero", left |-> FALSE],
     [exit |-> "raised", left |-> FALSE]}

\* project_dir = output_dir / group_name / project['path']
project_dir(group_name, project) == <<group_name, project.path>>

\* Outcome without the test "if project_dir.exists()".
OutcomeNoSkip(exists, proc) ==
    IF proc.exit = "zero" THEN "cloned" ELSE "failed"

\* The three returns of clone_project.
Outcome(exists, proc) ==
    IF exists THEN "skipped"
    ELSE IF proc.exit = "raised" THEN "failed"
    ELSE IF proc.exit # "zero" THEN "failed"
    ELSE "cloned"

\* Nothing at a destination.
Absent == [id |-> 0, state |-> "absent"]

\* Exists that takes only a complete mirror for an existing destination.
ExistsMirror(disk, dest) == disk[dest].state = "mirror"

\* if project_dir.exists()
Exists(disk, dest) == disk[dest].state # "absent"

\* DiskAfter of a clone_project that clones over an existing destination.
DiskAfterOverwrite(disk, dest, id, exists, proc) ==
    IF proc.left
      THEN [disk EXCEPT ![dest] =
                [id |-> id,
                 state |-> IF proc.exit = "zero" THEN "mirror"
                           ELSE "partial"]]
    ELSE disk

\* The disk after the call: git clone --mirror leaves at the destination
\* the mirror of the project (exit 0) or what it had made of it when it
\* failed; nothing is cleaned up.
DiskAfter(disk, dest, id, exists, proc) ==
    IF exists THEN disk
    ELSE IF proc.left
      THEN [disk EXCEPT ![dest] =
                [id |-> id,
                 state |-> IF proc.exit = "zero" THEN "mirror"
                           ELSE "partial"]]
    ELSE disk

\* How the clone process ended: "none" when clone_project returned before
\* subprocess.run.
ProcessExit(exists, proc) == IF exists THEN "none" ELSE proc.exit

\* Count without "self.skipped_projects += 1".
CountNoSkip(outcome) ==
    /\ skipped_projects' = skipped_projects
    /\ cloned_projects' =
            cloned_projects + (IF outcome = "cloned" THEN 1 ELSE 0)
    /\ failed_projects' =
            failed_projects + (IF outcome = "failed" THEN 1 ELSE 0)
    /\ UNCHANGED <<total_groups, total_projects>>

\* Count without the "return False" after a non-zero exit: the call goes
\* on to "self.cloned_projects += 1".
CountFallThrough(outcome) ==
    /\ skipped_projects' =
            skipped_projects + (IF outcome = "skipped" THEN 1 ELSE 0)
    /\ cloned_projects' =
            cloned_projects
                + (IF outcome \in {"cloned", "failed"} THEN 1 ELSE 0)
    /\ failed_projects' =
            failed_projects + (IF outcome = "failed" THEN 1 ELSE 0)
    /\ UNCHANGED <<total_groups, total_projects>>

\* self.<counter> += 1 of the return taken.
Count(outcome) ==
    /\ skipped_projects' =
            skipped_projects + (IF outcome = "skipped" THEN 1 ELSE 0)
    /\ cloned_projects' =
            cloned_projects + (IF outcome = "cloned" THEN 1 ELSE 0)
    /\ failed_projects' =
            failed_projects + (IF outcome = "failed" THEN 1 ELSE 0)
    /\ UNCHANGED <<total_groups, total_projects>>

clone_project(project, group_name, current, tot) ==
    LET dest == project_dir(group_name, project)
        exists == Exists(fs, dest)
    IN  \E proc \in CloneProcess :
            /\ fs' = DiskAfter(fs, dest, project.id, exists, proc)
            /\ Count(Outcome(exists, proc))
            /\ calls' = Append(calls,
                   [id |-> project.id,
                    gid |-> IF pc = "mirror_project" THEN groups[gi].id
                            ELSE 0,
                    dest |-> dest,
                    outcome |-> Outcome(exists, proc),
                    exit |-> ProcessExit(exists, proc),
                    current |-> current, total |-> tot])

(***************************************************************************)
(* The orchestrator, backup_all, one action per step.                      *)
(***************************************************************************)
\* groups = self.get_groups(); total_projects = 0
\* The choices of "git --version" in main: it exits with zero, it exits
\* with another status (CalledProcessError), or there is no git on the PATH
\* (FileNotFoundError).
GitVersion == {"zero", "nonzero", "not_found"}

\* main up to the call of backup_all: the check of git, then sys.exit(1)
\* or the construction of the GitLabBackup.
\* main() that lists the groups before it checks git.
CheckGitLate ==
    /\ pc = "main"
    /\ \E git \in GitVersion :
          pc' = IF git = "zero" THEN "start" ELSE "exit_1"
    /\ requests' = Append(requests, GroupsEndpoint)
    /\ UNCHANGED <<listing_failures, listing_failures_total>>
    /\ UNCHANGED <<server, fetcher, cloner, fs, counters, groups, gi, total,
                   all_projects, grouped_project_ids, projects, pj,
                   current_project, run, fs0, listed, calls>>

CheckGit ==
    /\ pc = "main"
    /\ \E git \in GitVersion :
          pc' = IF git = "zero" THEN "start" ELSE "exit_1"
    /\ NoListing
    /\ UNCHANGED <<server, fetcher, cloner, fs, counters, groups, gi, total,
                   all_projects, grouped_project_ids, projects, pj,
                   current_project, run, fs0, listed, calls>>

GetGroups ==
    /\ pc = "start"
    /\ \E fail \in FailChoices :
          LET r == get_groups(fail)
          IN  /\ groups' = r.all_data
              /\ total_groups' = Len(r.all_data)
              /\ Listed(r, GroupsEndpoint,
                        "count")
    /\ total' = 0
    /\ gi' = 1
    /\ UNCHANGED <<server, fetcher, cloner, fs, total_projects, cloned_projects,
                   skipped_projects, failed_projects, all_projects,
                   grouped_project_ids, projects, pj, current_project,
                   run, fs0, listed, calls>>

\* One turn of the first loop: total_projects += len(group_projects)
CountGroup ==
    /\ pc = "count"
    /\ gi <= Len(groups)
    /\ \E fail \in FailChoices :
          LET r == get_group_projects(groups[gi].id, fail)
          IN  /\ total' = total + Len(r.all_data)
              /\ Listed(r, GroupProjectsEndpoint(groups[gi].id),
                        "count")
    /\ gi' = gi + 1
    /\ UNCHANGED <<server, fetcher, cloner, fs, counters, groups, all_projects,
                   grouped_project_ids, projects, pj, current_project,
                   run, fs0, listed, calls>>

\* if include_ungrouped: all_projects = self.get_projects()
CountAll ==
    /\ pc = "count"
    /\ gi > Len(groups)
    /\ include_ungrouped
    /\ \E fail \in FailChoices :
          LET r == get_all_projects(fail)
          IN  /\ all_projects' = r.all_data
              /\ Listed(r, ProjectsEndpoint,
                        "count_grouped")
    /\ grouped_project_ids' = {}
    /\ gi' = 1
    /\ UNCHANGED <<server, fetcher, cloner, fs, counters, groups, total, projects, pj,
                   current_project, run, fs0, listed, calls>>

\* One turn of the loop that fills grouped_project_ids.
CountGrouped ==
    /\ pc = "count_grouped"
    /\ gi <= Len(groups)
    /\ \E fail \in FailChoices :
          LET r == get_group_projects(groups[gi].id, fail)
          IN  /\ grouped_project_ids' =
                     grouped_project_ids \cup Ids(r.all_data)
              /\ Listed(r, GroupProjectsEndpoint(groups[gi].id),
                        "count_grouped")
    /\ gi' = gi + 1
    /\ UNCHANGED <<server, fetcher, cloner, fs, counters, groups, total, all_projects,
                   projects, pj, current_project, run, fs0, listed, calls>>

\* total_projects += len(ungrouped_projects)
CountUngrouped ==
    /\ pc = "count_grouped"
    /\ gi > Len(groups)
    /\ total' = total + Len(NotGrouped(all_projects, grouped_project_ids))
    /\ pc' = "set_total"
    /\ NoListing
    /\ UNCHANGED <<server, fetcher, cloner, fs, counters, groups, gi, all_projects,
                   grouped_project_ids, projects, pj, current_project,
                   run, fs0, listed, calls>>

\* The test "if include_ungrouped" when it is false.
CountSkipUngrouped ==
    /\ pc = "count"
    /\ gi > Len(groups)
    /\ ~include_ungrouped
    /\ pc' = "set_total"
    /\ NoListing
    /\ UNCHANGED <<server, fetcher, cloner, fs, counters, groups, gi, total, all_projects,
                   grouped_project_ids, projects, pj, current_project,
                   run, fs0, listed, calls>>

\* self.total_projects = total_projects; current_project = 0
SetTotal ==
    /\ pc = "set_total"
    /\ total_projects' = total
    /\ current_project' = 0
    /\ gi' = 1
    /\ pc' = "mirror_group"
    /\ NoListing
    /\ UNCHANGED <<server, fetcher, cloner, fs, total_groups, cloned_projects,
                   skipped_projects, failed_projects, groups, total,
                   all_projects, grouped_project_ids, projects, pj,
                   run, fs0, listed, calls>>

\* Second loop over the groups: projects = self.get_projects(group_id)
MirrorGroup ==
    /\ pc = "mirror_group"
    /\ gi <= Len(groups)
    /\ \E fail \in FailChoices :
          LET r == get_group_projects(groups[gi].id, fail)
          IN  /\ projects' = r.all_data
              /\ Listed(r, GroupProjectsEndpoint(groups[gi].id),
                        "mirror_project")
    /\ listed' = listed \o [i \in DOMAIN projects' |->
                            <<groups[gi].id, projects'[i].id, groups[gi].path>>]
    /\ pj' = 1
    /\ UNCHANGED <<server, fetcher, cloner, fs, counters, groups, gi, total,
                   all_projects, grouped_project_ids, current_project,
                   run, fs0, calls>>

\* MirrorProject with "if not self.clone_project(...): break": a failed
\* clone ends the projects of the group.
MirrorProjectBreak ==
    /\ pc = "mirror_project"
    /\ pj <= Len(projects)
    /\ current_project' = current_project + 1
    /\ clone_project(projects[pj], groups[gi].path, current_project + 1,
                     total_projects)
    /\ pj' = IF calls'[Len(calls')].outcome = "failed"
               THEN Len(projects) + 1 ELSE pj + 1
    /\ NoListing
    /\ UNCHANGED <<server, fetcher, cloner, pc, groups, gi, total, all_projects,
                   grouped_project_ids, projects, run, fs0, listed>>

\* One turn of "for project in projects": current_project += 1;
\* self.clone_project(project, group_path, current_project, total_projects)
MirrorProject ==
    /\ pc = "mirror_project"
    /\ pj <= Len(projects)
    /\ current_project' = current_project + 1
    /\ clone_project(projects[pj], groups[gi].path, current_project + 1,
                     total_projects)
    /\ pj' = pj + 1
    /\ NoListing
    /\ UNCHANGED <<server, fetcher, cloner, pc, groups, gi, total, all_projects,
                   grouped_project_ids, projects, run, fs0, listed>>

\* The end of the projects of one group: on to the next group.
MirrorNextGroup ==
    /\ pc = "mirror_project"
    /\ pj > Len(projects)
    /\ gi' = gi + 1
    /\ pc' = "mirror_group"
    /\ NoListing
    /\ UNCHANGED <<server, fetcher, cloner, fs, counters, groups, total, all_projects,
                   grouped_project_ids, projects, pj, current_project,
                   run, fs0, listed, calls>>

\* MirrorAll without the test "if include_ungrouped".
MirrorAllAlways ==
    /\ pc = "mirror_group"
    /\ gi > Len(groups)
    /\ \E fail \in FailChoices :
          LET r == get_all_projects(fail)
          IN  /\ all_projects' = r.all_data
              /\ Listed(r, ProjectsEndpoint,
                        "mirror_grouped")
    /\ grouped_project_ids' = {}
    /\ gi' = 1
    /\ UNCHANGED <<server, fetcher, cloner, fs, counters, groups, total, projects, pj,
                   current_project, run, fs0, listed, calls>>

\* if include_ungrouped: all_projects = self.get_projects()
MirrorAll ==
    /\ pc = "mirror_group"
    /\ gi > Len(groups)
    /\ include_ungrouped
    /\ \E fail \in FailChoices :
          LET r == get_all_projects(fail)
          IN  /\ all_projects' = r.all_data
              /\ Listed(r, ProjectsEndpoint,
                        "mirror_grouped")
    /\ grouped_project_ids' = {}
    /\ gi' = 1
    /\ UNCHANGED <<server, fetcher, cloner, fs, counters, groups, total, projects, pj,
                   current_project, run, fs0, listed, calls>>

\* One turn of the second loop that fills grouped_project_ids.
MirrorGrouped ==
    /\ pc = "mirror_grouped"
    /\ gi <= Len(groups)
    /\ \E fail \in FailChoices :
          LET r == get_group_projects(groups[gi].id, fail)
          IN  /\ grouped_project_ids' =
                     grouped_project_ids \cup Ids(r.all_data)
              /\ Listed(r, GroupProjectsEndpoint(groups[gi].id),
                        "mirror_grouped")
    /\ gi' = gi + 1
    /\ UNCHANGED <<server, fetcher, cloner, fs, counters, groups, total, all_projects,
                   projects, pj, current_project, run, fs0, listed, calls>>

\* ungrouped_projects = [p for p in all_projects if ...]
MirrorUngroupedSet ==
    /\ pc = "mirror_grouped"
    /\ gi > Len(groups)
    /\ projects' = NotGrouped(all_projects, grouped_project_ids)
    /\ listed' = listed \o [i \in DOMAIN projects' |->
                            <<0, projects'[i].id, UngroupedBucket>>]
    /\ pj' = 1
    /\ pc' = "mirror_ungrouped"
    /\ NoListing
    /\ UNCHANGED <<server, fetcher, cloner, fs, counters, groups, gi, total,
                   all_projects, grouped_project_ids, current_project,
                   run, fs0, calls>>

\* One turn of "for project in ungrouped_projects".
MirrorUngrouped ==
    /\ pc = "mirror_ungrouped"
    /\ pj <= Len(projects)
    /\ current_project' = current_project + 1
    /\ clone_project(projects[pj], UngroupedBucket, current_project + 1,
                     total_projects)
    /\ pj' = pj + 1
    /\ NoListing
    /\ UNCHANGED <<server, fetcher, cloner, pc, groups, gi, total, all_projects,
                   grouped_project_ids, projects, run, fs0, listed>>

\* self._show_final_stats(), after the last project.
ShowFinalStats ==
    /\ \/ pc = "mirror_ungrouped" /\ pj > Len(projects)
       \/ pc = "mirror_group" /\ gi > Len(groups) /\ ~include_ungrouped
    /\ pc' = "done"
    /\ NoListing
    /\ UNCHANGED <<server, fetcher, cloner, fs, counters, groups, gi, total, all_projects,
                   grouped_project_ids, projects, pj, current_project,
                   run, fs0, listed, calls>>

\* main() once more: a new GitLabBackup on the same server and disk.
NewRun ==
    /\ pc = "done"
    /\ run < MaxRuns
    /\ run' = run + 1
    /\ fs0' = fs
    /\ listing_failures' = 0
    /\ calls' = <<>>
    /\ listed' = <<>>
    /\ requests' = <<>>
    /\ total_groups' = 0
    /\ total_projects' = 0
    /\ cloned_projects' = 0
    /\ skipped_projects' = 0
    /\ failed_projects' = 0
    /\ pc' = "main"
    /\ groups' = <<>>
    /\ gi' = 0
    /\ total' = 0
    /\ all_projects' = <<>>
    /\ grouped_project_ids' = {}
    /\ projects' = <<>>
    /\ pj' = 0
    /\ current_project' = 0
    /\ UNCHANGED <<server, fetcher, cloner, fs, listing_failures_total>>

(***************************************************************************)
(* The specification of the runs of the tool.                              *)
(***************************************************************************)
Init ==
    /\ srv_groups \in GroupLists
    /\ srv_projects \in ProjectLists
    /\ srv_members \in
         [1..Len(srv_groups) ->
             {Select(srv_projects, ids) : ids \in SUBSET Ids(srv_projects)}]
    /\ include_ungrouped \in BOOLEAN
    /\ fs = [d \in Dests |-> Absent]
    /\ fs0 = fs
    /\ total_groups = 0
    /\ total_projects = 0
    /\ cloned_projects = 0
    /\ skipped_projects = 0
    /\ failed_projects = 0
    /\ pc = "main"
    /\ groups = <<>>
    /\ gi = 0
    /\ total = 0
    /\ all_projects = <<>>
    /\ grouped_project_ids = {}
    /\ projects = <<>>
    /\ pj = 0
    /\ current_project = 0
    /\ run = 1
    /\ listing_failures = 0
    /\ listing_failures_total = 0
    /\ calls = <<>>
    /\ listed = <<>>
    /\ requests = <<>>
    /\ endpoint = <<>>
    /\ fail_page = 0
    /\ fetched = <<>>
    /\ url_in = [scheme |-> <<>>, userinfo |-> <<>>, host |-> <<>>,
                 path |-> <<>>]
    /\ access_token = <<>>
    /\ url_out = <<>>

Next ==
    \/ CheckGit
    \/ GetGroups
    \/ CountGroup
    \/ CountAll
    \/ CountGrouped
    \/ CountUngrouped
    \/ CountSkipUngrouped
    \/ SetTotal
    \/ MirrorGroup
    \/ MirrorProject
    \/ MirrorNextGroup
    \/ MirrorAll
    \/ MirrorGrouped
    \/ MirrorUngroupedSet
    \/ MirrorUngrouped
    \/ ShowFinalStats
    \/ NewRun

Spec == Init /\ [][Next]_vars

\* One run of the tool when every step that can be taken is taken in the
\* end: backup_all is sequential code in which every HTTP request and every
\* clone process returns.
NextOnce ==
    \/ CheckGit
    \/ GetGroups
    \/ CountGroup
    \/ CountAll
    \/ CountGrouped
    \/ CountUngrouped
    \/ CountSkipUngrouped
    \/ SetTotal
    \/ MirrorGroup
    \/ MirrorProject
    \/ MirrorNextGroup
    \/ MirrorAll
    \/ MirrorGrouped
    \/ MirrorUngroupedSet
    \/ MirrorUngrouped
    \/ ShowFinalStats

SpecLive == Init /\ [][NextOnce]_vars /\ WF_vars(NextOnce)

(***************************************************************************)
(* The specification of one call of _make_request on a stub endpoint.      *)
(***************************************************************************)
\* The numbers of records a stub page may hold: none, a partial page (one
\* record, 37 records) or a full page.
PageSizes == {0, 1, 37, PerPage}

\* Page p of n records; record i of page p is <<p, i>>.
StubPage(p, n) == [i \in 1..n |-> <<p, i>>]

\* The stub endpoints: at most MaxPages pages, each of a size of PageSizes.
Stubs ==
    UNION {{[p \in 1..k |-> StubPage(p, size[p])] :
                size \in [1..k -> PageSizes]} : k \in 0..MaxPages}

InitFetch ==
    /\ endpoint \in Stubs
    /\ fail_page \in 0..(MaxPages + 1)
    /\ fetched = <<>>
    /\ url_in = [scheme |-> <<>>, userinfo |-> <<>>, host |-> <<>>,
                 path |-> <<>>]
    /\ access_token = <<>>
    /\ url_out = <<>>
    /\ srv_groups = <<>>
    /\ srv_projects = <<>>
    /\ srv_members = <<>>
    /\ include_ungrouped = FALSE
    /\ fs = [d \in Dests |-> Absent]
    /\ fs0 = fs
    /\ total_groups = 0
    /\ total_projects = 0
    /\ cloned_projects = 0
    /\ skipped_projects = 0
    /\ failed_projects = 0
    /\ pc = "fetch"
    /\ groups = <<>>
    /\ gi = 0
    /\ total = 0
    /\ all_projects = <<>>
    /\ grouped_project_ids = {}
    /\ projects = <<>>
    /\ pj = 0
    /\ current_project = 0
    /\ run = 1
    /\ listing_failures = 0
    /\ listing_failures_total = 0
    /\ calls = <<>>
    /\ listed = <<>>
    /\ requests = <<>>

\* all_data = self._make_request(endpoint)
Fetch ==
    /\ pc = "fetch"
    /\ fetched' = make_request(endpoint, fail_page)
    /\ pc' = "fetched"
    /\ UNCHANGED <<server, fs, counters, groups, gi, total, all_projects,
                   grouped_project_ids, projects, pj, current_project,
                   history, endpoint, fail_page, cloner>>

NextFetch == Fetch

SpecFetch == InitFetch /\ [][NextFetch]_vars

(***************************************************************************)
(* The specification of one making of the clone URL.                       *)
(***************************************************************************)
\* The components the clone URLs of the projects are made of.
Schemes == {<<"h", "t", "t", "p">>, <<"h", "t", "t", "p", "s">>}
UserInfos == {<<>>, <<"g", "i", "t">>, <<"u", ":", "p">>}
Hosts == {<<"h", ".", "i", "o">>, <<"h", ".", "i", "o", ":", "8", "0">>,
          NavclipsHost}
UrlPaths == {<<"/", "p", ".", "g", "i", "t">>,
             <<"/", "g", "/", "p", ".", "g", "i", "t">>}
Tokens == {<<"T">>, <<"t", "-", "1">>}

\* The text of a URL: scheme://[userinfo@]host/path
UrlText(u) ==
    u.scheme \o SchemeSep
        \o (IF u.userinfo = <<>> THEN <<>> ELSE u.userinfo \o AtSign)
        \o u.host \o u.path

InitUrl ==
    /\ url_in \in [scheme : Schemes, userinfo : UserInfos, host : Hosts,
                   path : UrlPaths]
    /\ access_token \in Tokens
    /\ url_out = <<>>
    /\ endpoint = <<>>
    /\ fail_page = 0
    /\ fetched = <<>>
    /\ srv_groups = <<>>
    /\ srv_projects = <<>>
    /\ srv_members = <<>>
    /\ include_ungrouped = FALSE
    /\ fs = [d \in Dests |-> Absent]
    /\ fs0 = fs
    /\ total_groups = 0
    /\ total_projects = 0
    /\ cloned_projects = 0
    /\ skipped_projects = 0
    /\ failed_projects = 0
    /\ pc = "url"
    /\ groups = <<>>
    /\ gi = 0
    /\ total = 0
    /\ all_projects = <<>>
    /\ grouped_project_ids = {}
    /\ projects = <<>>
    /\ pj = 0
    /\ current_project = 0
    /\ run = 1
    /\ listing_failures = 0
    /\ listing_failures_total = 0
    /\ listed = <<>>
    /\ calls = <<>>
    /\ requests = <<>>

\* Lines 187-197 on project['http_url_to_repo'].
MakeTokenUrl ==
    /\ pc = "url"
    /\ url_out' = token_url(UrlText(url_in), access_token)
    /\ pc' = "url_made"
    /\ UNCHANGED <<server, fs, counters, groups, gi, total, all_projects,
                   grouped_project_ids, projects, pj, current_project,
                   history, fetcher, url_in, access_token>>

NextUrl == MakeTokenUrl

SpecUrl == InitUrl /\ [][NextUrl]_vars

(***************************************************************************)
(* Vocabulary of the properties.                                           *)
(***************************************************************************)
Done == pc = "done"

\* A step that is one call of clone_project, and that call.
CloneStep == Len(calls') = Len(calls) + 1
LastCall == calls'[Len(calls')]

\* The calls of clone_project that handled project id.
CallsOf(id) == {i \in DOMAIN calls : calls[i].id = id}

\* The identifiers some group's listing returns.
GroupedIds == UNION {Ids(srv_members[g]) : g \in DOMAIN srv_members}

\* The identifiers mirrored as members of group gid (0: of no group).
MirroredAs(gid) == {calls[i].id : i \in {j \in DOMAIN calls : calls[j].gid = gid}}

\* C1: when backup_all completes a run in which no listing request failed
\* (the server being a fixed snapshot), total_projects is
\* cloned_projects + skipped_projects + failed_projects.
C1_TotalIsSum ==
    (Done /\ listing_failures = 0) =>
        total_projects = cloned_projects + skipped_projects + failed_projects

C1_Witness ==
    /\ Done
    /\ listing_failures = 0
    /\ cloned_projects > 0
    /\ skipped_projects > 0
    /\ failed_projects > 0

\* C2: in one run of backup_all (no listing request failing, ungrouped
\* projects included) every project identifier of the server is handed to
\* clone_project exactly once, so it has exactly one destination, also when
\* several groups list the same project.
C2_ExactlyOneDestination ==
    (Done /\ listing_failures = 0 /\ include_ungrouped) =>
        \A id \in Ids(srv_projects) : Cardinality(CallsOf(id)) = 1

\* C3: a call of clone_project whose destination exists is skipped:
\* skipped_projects grows by one, no clone process is started and the disk
\* is left as it was, whatever the clone would have done.
C3_ExistingIsSkipped ==
    [][(CloneStep /\ Exists(fs, LastCall.dest)) =>
          /\ LastCall.outcome = "skipped"
          /\ LastCall.exit = "none"
          /\ skipped_projects' = skipped_projects + 1
          /\ cloned_projects' = cloned_projects
          /\ failed_projects' = failed_projects
          /\ fs' = fs]_vars

C3_Witness ==
    \E i \in DOMAIN calls :
        /\ calls[i].outcome = "skipped"
        /\ fs[calls[i].dest].state = "partial"

\* Every project the server lists has its destination on the disk.
Populated(disk) ==
    /\ \A g \in DOMAIN srv_groups : \A i \in DOMAIN srv_members[g] :
          Exists(disk, <<srv_groups[g].path, srv_members[g][i].path>>)
    /\ include_ungrouped =>
          \A p \in Range(NotGrouped(srv_projects, GroupedIds)) :
              Exists(disk, <<UngroupedBucket, p.path>>)

C5_Partition ==
    (Done /\ listing_failures = 0 /\ include_ungrouped) =>
        LET parts == {srv_groups[g].id : g \in DOMAIN srv_groups} \cup {0}
        IN  /\ \A a, b \in parts :
                  a # b => MirroredAs(a) \cap MirroredAs(b) = {}
            /\ UNION {MirroredAs(a) : a \in parts} = Ids(srv_projects)

\* C6: in a run with no listing failure, every project a group's listing
\* returns is mirrored under the bucket of that group's path segment, and,
\* ungrouped projects being included, a project of the unrestricted list is
\* mirrored under the ungrouped bucket exactly when no group lists it.
C6_BucketOfProject ==
    (Done /\ listing_failures = 0) =>
        /\ \A g \in DOMAIN srv_groups : \A i \in DOMAIN srv_members[g] :
              \E c \in DOMAIN calls :
                  /\ calls[c].id = srv_members[g][i].id
                  /\ calls[c].dest =
                        <<srv_groups[g].path, srv_members[g][i].path>>
        /\ include_ungrouped =>
              \A i \in DOMAIN srv_projects :
                  (\E c \in DOMAIN calls :
                      /\ calls[c].id = srv_projects[i].id
                      /\ calls[c].dest =
                            <<UngroupedBucket, srv_projects[i].path>>)
                  <=> srv_projects[i].id \notin GroupedIds

C6_Witness ==
    /\ Done
    /\ listing_failures = 0
    /\ include_ungrouped
    /\ \E c \in DOMAIN calls : calls[c].gid = 0
    /\ \E c \in DOMAIN calls : calls[c].gid # 0

\* The first page of the endpoint that is not full: there the fetcher stops.
FirstShort(pages) ==
    CHOOSE k \in 1..(Len(pages) + 1) :
        /\ Len(PageAt(pages, k)) < PerPage
        /\ \A j \in 1..(k - 1) : Len(pages[j]) >= PerPage

\* C7: no request failing, _make_request asks for pages 1, 2, 3, ... up to
\* the first page with fewer than per_page records and for no page after
\* it, and returns the records of those pages in order.
C7_Pagination ==
    (pc = "fetched" /\ fail_page \notin 1..FirstShort(endpoint)) =>
        LET k == FirstShort(endpoint)
        IN  /\ fetched.requested = [i \in 1..k |-> i]
            /\ fetched.all_data =
                  Flatten([i \in 1..k |-> PageAt(endpoint, i)])
            /\ ~fetched.failed

\* Pages of 100, 100 and 37 records: 237 records after three requests.
C7_Witness ==
    /\ pc = "fetched"
    /\ fail_page = 0
    /\ Len(endpoint) = 3
    /\ Len(endpoint[1]) = PerPage
    /\ Len(endpoint[2]) = PerPage
    /\ Len(endpoint[3]) = 37
    /\ Len(fetched.all_data) = 2 * PerPage + 37
    /\ fetched.requested = <<1, 2, 3>>

\* C8: when the request for page k fails, _make_request has asked for pages
\* 1..k once each and for no other, raises nothing and returns the records
\* of pages 1..k-1 in order.
C8_FailureTruncates ==
    (pc = "fetched" /\ fail_page \in 1..FirstShort(endpoint)) =>
        /\ fetched.requested = [i \in 1..fail_page |-> i]
        /\ fetched.all_data =
              Flatten([i \in 1..(fail_page - 1) |-> endpoint[i]])
        /\ fetched.failed
        /\ ~fetched.raised

C8_Witness ==
    /\ pc = "fetched"
    /\ fail_page = 3
    /\ Len(fetched.all_data) = 2 * PerPage
    /\ fetched.requested = <<1, 2, 3>>
    /\ fetched.failed

\* C9: a failed clone is counted and ends nothing: when the run completes,
\* clone_project has been called once for each project the listings of the
\* mirroring pass returned, in their order, whatever calls failed.
C9_FailureDoesNotAbort ==
    Done =>
        /\ [i \in DOMAIN calls |->
               <<calls[i].gid, calls[i].id, calls[i].dest[1]>>] = listed
        /\ failed_projects =
               Cardinality({i \in DOMAIN calls :
                               calls[i].exit \in {"nonzero", "raised"}})

C9_Witness ==
    /\ Done
    /\ Len(calls) >= 3
    /\ calls[1].outcome = "failed"
    /\ \E j \in DOMAIN calls : calls[j].gid \notin {0, calls[1].gid}
    /\ \E j \in DOMAIN calls : calls[j].gid = 0

\* C10: a call of clone_project adds 1 to exactly one of the three
\* counters, skipped when the destination exists, cloned when the clone
\* exits 0, failed otherwise, and changes neither total.
C10_OneCounterPerCall ==
    [][CloneStep =>
          LET e == Exists(fs, LastCall.dest)
              by(was, is) == IF is = was + 1 THEN 1
                             ELSE IF is = was THEN 0 ELSE 2
          IN  /\ total_projects' = total_projects
              /\ total_groups' = total_groups
              /\ by(skipped_projects, skipped_projects') =
                    (IF e THEN 1 ELSE 0)
              /\ by(cloned_projects, cloned_projects') =
                    (IF ~e /\ LastCall.exit = "zero" THEN 1 ELSE 0)
              /\ by(failed_projects, failed_projects') =
                    (IF ~e /\ LastCall.exit # "zero" THEN 1 ELSE 0)]_vars

C10_Witness ==
    /\ ~Done
    /\ \E i, j, k \in DOMAIN calls :
          /\ calls[i].outcome = "skipped"
          /\ calls[j].outcome = "cloned"
          /\ calls[k].outcome = "failed"

\* The place of group gid in the group listing; the ungrouped projects
\* (gid 0) come after every group.
GroupRank(gid) ==
    IF gid = 0 THEN Len(srv_groups) + 1
    ELSE CHOOSE g \in DOMAIN srv_groups : srv_groups[g].id = gid

\* The place of project id in the listing the calls for gid are made from.
ProjectRank(gid, id) ==
    LET listing == IF gid = 0 THEN srv_projects ELSE srv_members[gid]
    IN  CHOOSE i \in DOMAIN listing : listing[i].id = id

\* The calls a run with no listing failure makes, in order.
ExpectedCalls ==
    Flatten([g \in DOMAIN srv_groups |->
                [i \in DOMAIN srv_members[srv_groups[g].id] |->
                    <<srv_groups[g].id,
                      srv_members[srv_groups[g].id][i].id>>]])
    \o (IF include_ungrouped
          THEN LET u == NotGrouped(srv_projects, GroupedIds)
               IN  [i \in DOMAIN u |-> <<0, u[i].id>>]
          ELSE <<>>)

\* C11: the calls of clone_project follow the group listing, within a group
\* that group's project listing, all of a group before the next group, the
\* ungrouped projects last in the order of the unrestricted listing; no
\* project of a listing is called twice or out of order, and a run with no
\* listing failure makes exactly the calls of the listings in that order.
C11_ProcessingOrder ==
    /\ \A i, j \in DOMAIN calls :
          i < j =>
             /\ GroupRank(calls[i].gid) <= GroupRank(calls[j].gid)
             /\ calls[i].gid = calls[j].gid =>
                   ProjectRank(calls[i].gid, calls[i].id)
                       < ProjectRank(calls[j].gid, calls[j].id)
    /\ (Done /\ listing_failures = 0) =>
          [i \in DOMAIN calls |-> <<calls[i].gid, calls[i].id>>]
              = ExpectedCalls

C11_Witness ==
    /\ Done
    /\ listing_failures = 0
    /\ Len(calls) = 4
    /\ calls[1].gid = calls[2].gid
    /\ calls[3].gid \notin {0, calls[1].gid}
    /\ calls[3].gid = calls[4].gid

\* C12: the URL handed to the clone process has the scheme of the
\* project's clone URL, oauth2:<token> as its user-info in place of any the
\* URL had, and the host and the path of the project's clone URL.
C12_UrlKeepsHostAndPath ==
    pc = "url_made" =>
        /\ ~url_out.raised
        /\ url_out.url =
              url_in.scheme \o SchemeSep \o OAuth2 \o access_token
                  \o AtSign \o url_in.host \o url_in.path

\* C13: every run that has passed the check of git reaches the final
\* statistics, whatever listing requests and clones fail in it, every
\* request and every clone process returning.
C13_SummaryAlwaysEmitted == (pc = "start") ~> Done

C13_Witness ==
    /\ Done
    /\ listing_failures > 0
    /\ failed_projects > 0

\* The run has ended in sys.exit(1) after the check of git.
Aborted == pc = "exit_1"

\* C14: when the check of git fails the run ends with exit status 1 before
\* any work: it has issued no listing request, made no call of clone_project,
\* changed no counter and nothing on the disk, and it takes no further step,
\* so it never shows the final statistics.
C14_PreflightAborts ==
    /\ [](Aborted =>
            /\ requests = <<>>
            /\ calls = <<>>
            /\ listed = <<>>
            /\ total_groups = 0
            /\ total_projects = 0
            /\ cloned_projects = 0
            /\ skipped_projects = 0
            /\ failed_projects = 0
            /\ fs = fs0)
    /\ [][Aborted => Aborted']_vars
    /\ [][pc = "main" => pc' \in {"start", "exit_1"}]_vars

\* The check of git fails in a second run, on a disk the first run filled.
C14_Witness ==
    /\ Aborted
    /\ run = 2
    /\ \E d \in Dests : fs[d] # Absent


\* The destinations that hold what a failed clone left.
Partial(disk) == {d \in Dests : disk[d].state = "partial"}

C16_FailureOnlyOmits ==
    \A i \in DOMAIN calls :
        \E j \in DOMAIN ExpectedCalls :
            ExpectedCalls[j] = <<calls[i].gid, calls[i].id>>


\* C17: a run that found the output root empty, with no listing request
\* failing and every clone process exiting with 0, skips nothing and clones
\* every project it counted, whatever path segments projects and groups
\* share.
C17_DistinctDestinations ==
    (/\ Done
     /\ \A d \in Dests : fs0[d] = Absent
     /\ listing_failures = 0
     /\ \A i \in DOMAIN calls : calls[i].exit \in {"zero", "none"}) =>
        /\ skipped_projects = 0
        /\ cloned_projects = total_projects


\* C18: the n-th call of clone_project of a run is given current = n and
\* total = total_projects, with 1 <= current <= total_projects, and the last
\* call of a completed run is given current = total_projects.
C18_ProgressIndex ==
    /\ \A n \in DOMAIN calls :
          /\ calls[n].current = n
          /\ calls[n].total = total_projects
          /\ 1 <= calls[n].current
          /\ calls[n].current <= total_projects
    /\ (Done /\ calls # <<>>) => calls[Len(calls)].current = total_projects


\* The requests for the projects of each group the run listed, in order.
GroupRequests ==
    [i \in DOMAIN groups |-> GroupProjectsEndpoint(groups[i].id)]

\* The requests that find the ungrouped projects, when they are asked for.
UngroupedRequests ==
    IF include_ungrouped THEN <<ProjectsEndpoint>> \o GroupRequests ELSE <<>>

\* The sizes of the listings of the first n groups, added up.
RECURSIVE GroupListingSizes(_)
GroupListingSizes(n) ==
    IF n = 0 THEN 0
    ELSE GroupListingSizes(n - 1) + Len(srv_members[srv_groups[n].id])

\* C19: with ungrouped projects excluded a run never requests 'projects',
\* calls clone_project for no project as ungrouped, puts nothing under the
\* ungrouped bucket and sets total_projects to the sum of the sizes of the
\* group listings (at most that sum when a listing failed); a completed run
\* has requested the groups, then the projects of each group for the count,
\* then those again for the mirroring, and, ungrouped projects included,
\* 'projects' and the projects of each group once more after each of the
\* two: the ungrouped set is fetched and computed twice.
C19_UngroupedOnlyWhenAsked ==
    /\ ~include_ungrouped =>
          /\ ProjectsEndpoint \notin Range(requests)
          /\ \A i \in DOMAIN calls :
                /\ calls[i].gid # 0
                /\ calls[i].dest[1] # UngroupedBucket
          /\ \A p \in ProjectPaths : fs[<<UngroupedBucket, p>>] = Absent
          /\ total_projects <= GroupListingSizes(Len(srv_groups))
          /\ (Done /\ listing_failures = 0) =>
                total_projects = GroupListingSizes(Len(srv_groups))
    /\ Done =>
          requests = <<GroupsEndpoint>> \o GroupRequests \o UngroupedRequests
                        \o GroupRequests \o UngroupedRequests

\* A completed run that left out the ungrouped projects of the server.
C19_Witness ==
    /\ Done
    /\ ~include_ungrouped
    /\ listing_failures = 0
    /\ NotGrouped(srv_projects, GroupedIds) # <<>>
    /\ Len(groups) = 2
    /\ total_projects = 2
    /\ Len(calls) = 2


====
